---- MODULE Spec2Model ----
(***************************************************************************)
(* Model of SpectralPreprocessingTool (2.GUI_preprocssing.py): the state   *)
(* held by the main window and the six handlers wired to its controls.     *)
(*                                                                         *)
(* Python objects are records of one shape each, so that values of         *)
(* different Python types can be compared:                                 *)
(*   column label   [kind: "str" | "int", v: tuple of characters]          *)
(*   column         [dtype: "int64" | "float64" | "object",                *)
(*                   cells: the values read from the file,                 *)
(*                   hist:  the <<window, polyorder>> of every             *)
(*                          savgol_filter call applied since, in order]    *)
(*   DataFrame      [isNone, columns: labels, series: columns, nrows]      *)
(* savgol_filter is library code: its result is kept as the term           *)
(* "savgol applied to these cells with these parameters", its failures are *)
(* the ones scipy raises.                                                  *)
(***************************************************************************)
EXTENDS Integers, Sequences, FiniteSets

VARIABLES
    data,               \* self.data
    loaded_file_path,   \* self.loaded_file_path
    preproc_button,     \* self.preproc_button.isChecked()
    preproc_options,    \* self.preproc_options: shown by setVisible
    filter_controls,    \* self.filter_controls: shown by setVisible
    slider_window,      \* self.slider_window.value()
    slider_poly,        \* self.slider_poly.value()
    table_widget,       \* self.table_widget: counts, header labels, items
    plot_view,          \* self.plot_view: the chart last handed to setHtml
    content_area,       \* self.content_area.currentWidget()
    outfiles,           \* spreadsheets written by DataFrame.to_excel
    stdout,             \* what the last handler printed
    msgbox,             \* the QMessageBox the last handler showed
    params,             \* window / poly_order of the last handler, if it set them
    uncaught,           \* exception that left the last handler, or "none"
    terminated,         \* the process was aborted after an uncaught exception
    last,               \* the last handler that ran
    nfinal              \* number of finished_filtering calls on a DataFrame so far

vars == <<data, loaded_file_path, preproc_button, preproc_options,
          filter_controls, slider_window, slider_poly, table_widget,
          plot_view, content_area, outfiles, stdout, msgbox, params,
          uncaught, terminated, last, nfinal>>

\* Bound on the number of finished_filtering calls on a DataFrame in one run.
MaxFinalize == 2

\* Slider ranges set in create_sidebar.
WindowMin == 3
WindowMax == 21
WindowInit == 7
PolyMin == 1
PolyMax == 5
PolyInit == 2

(***************************************************************************)
(* Text                                                                    *)
(***************************************************************************)
UpperCase == <<"A","B","C","D","E","F","G","H","I","J","K","L","M",
               "N","O","P","Q","R","S","T","U","V","W","X","Y","Z">>
LowerCase == <<"a","b","c","d","e","f","g","h","i","j","k","l","m",
               "n","o","p","q","r","s","t","u","v","w","x","y","z">>

LowerChar(c) ==
    IF \E i \in DOMAIN UpperCase : UpperCase[i] = c
    THEN LowerCase[CHOOSE i \in DOMAIN UpperCase : UpperCase[i] = c]
    ELSE c

\* str.lower()
Lower(s) == [i \in DOMAIN s |-> LowerChar(s[i])]

StrName(chars) == [kind |-> "str", v |-> chars]
IntName(digits) == [kind |-> "int", v |-> digits]

wavelength == <<"w","a","v","e","l","e","n","g","t","h">>

\* Variant: the label compared as it is, without lower().
NotWavelengthMut(col) == col.v # wavelength
\* The test of line 264, for a label that has .lower().
NotWavelength(col) == Lower(col.v) # wavelength

(***************************************************************************)
(* DataFrames                                                              *)
(***************************************************************************)
None == [isNone |-> TRUE, columns |-> <<>>, series |-> <<>>, nrows |-> 0]

Column(dtype, cells) == [dtype |-> dtype, cells |-> cells, hist |-> <<>>]

DataFrame(columns, series) ==
    [isNone |-> FALSE, columns |-> columns, series |-> series,
     nrows |-> IF series = <<>> THEN 0 ELSE Len(series[1].cells)]

NoPath == [isNone |-> TRUE, base |-> "", ext |-> ""]
Path(base, ext) == [isNone |-> FALSE, base |-> base, ext |-> ext]

\* os.path.splitext
SplitExt(p) == <<p.base, p.ext>>

\* Lines 272-273.
OutputPath(p) ==
    LET be == SplitExt(p)
    IN  Path(be[1] \o "_savitzky_filtered", be[2])

(***************************************************************************)
(* The spreadsheets the file dialog can return                             *)
(***************************************************************************)
label == <<"l","a","b","e","l">>

SamplePath == Path("sample", ".xlsx")
MixedPath == Path("mixed", ".xlsx")
TimePath == Path("time", ".xlsx")
HeaderPath == Path("header", ".xlsx")
GridPath == Path("grid", ".xlsx")
CorruptPath == Path("corrupt", ".xlsx")

\* wavelength (integers) and one intensity column (floats), 3 rows
SampleFrame ==
    DataFrame(<<StrName(wavelength), StrName(<<"a">>)>>,
              <<Column("int64", <<1, 2, 3>>), Column("float64", <<1, 3, 2>>)>>)

\* capitalised wavelength, a text column between two intensity columns
MixedFrame ==
    DataFrame(<<StrName(<<"W","a","v","e","l","e","n","g","t","h">>),
                StrName(<<"a">>), StrName(label), StrName(<<"b">>)>>,
              <<Column("int64", <<1, 2, 3>>), Column("float64", <<2, 1, 2>>),
                Column("object", <<1, 2, 3>>), Column("float64", <<3, 1, 1>>)>>)

\* first column is not wavelength; 2 rows, fewer than any window
TimeFrame ==
    DataFrame(<<StrName(<<"t","i","m","e">>), StrName(<<"a">>)>>,
              <<Column("int64", <<1, 2>>), Column("int64", <<5, 6>>)>>)

\* a header row with a number in it: pandas keeps the label as an int
HeaderFrame ==
    DataFrame(<<StrName(wavelength), StrName(label), IntName(<<"4","0","0">>)>>,
              <<Column("int64", <<1, 2, 3>>), Column("object", <<1, 2, 3>>),
                Column("float64", <<2, 3, 1>>)>>)

\* a header row of numbers only
GridFrame ==
    DataFrame(<<IntName(<<"4","0","0">>), IntName(<<"4","1","0">>)>>,
              <<Column("float64", <<1, 2, 1>>), Column("float64", <<2, 1, 2>>)>>)

Files == {SamplePath, MixedPath, TimePath, HeaderPath, GridPath, CorruptPath}

\* pd.read_excel: the DataFrame, or an exception
ReadExcel(file_path) ==
    CASE file_path = SamplePath -> [ok |-> TRUE, value |-> SampleFrame]
      [] file_path = MixedPath -> [ok |-> TRUE, value |-> MixedFrame]
      [] file_path = TimePath -> [ok |-> TRUE, value |-> TimeFrame]
      [] file_path = HeaderPath -> [ok |-> TRUE, value |-> HeaderFrame]
      [] file_path = GridPath -> [ok |-> TRUE, value |-> GridFrame]
      [] OTHER -> [ok |-> FALSE, value |-> None]

(***************************************************************************)
(* Messages written to the console                                         *)
(***************************************************************************)
NoArg == [kind |-> "none", v |-> <<>>]
Msg(text) == [text |-> text, arg |-> NoArg]
MsgAbout(text, arg) == [text |-> text, arg |-> arg]

(***************************************************************************)
(* Filter parameters                                                       *)
(***************************************************************************)
\* Variant: poly_order + 2 taken without making it odd.
NormalizeWindowMut(window, poly_order) ==
    LET w1 == IF window % 2 = 0 THEN window + 1 ELSE window
    IN  IF w1 <= poly_order THEN poly_order + 2 ELSE w1
\* Lines 257-260: window made odd and greater than poly_order.
NormalizeWindow(window, poly_order) ==
    LET w1 == IF window % 2 = 0 THEN window + 1 ELSE window
    IN  IF w1 <= poly_order
        THEN (IF (poly_order + 2) % 2 # 0 THEN poly_order + 2 ELSE poly_order + 3)
        ELSE w1

\* scipy.signal.savgol_filter(x, window_length, polyorder), mode "interp":
\* raises for data that is not numeric, for polyorder >= window_length and
\* for a window longer than x; otherwise a float64 array as long as x.
SavgolFilter(x, window_length, polyorder) ==
    IF \/ x.dtype = "object"
       \/ polyorder >= window_length
       \/ window_length > Len(x.cells)
    THEN [ok |-> FALSE, value |-> x]
    ELSE [ok |-> TRUE,
          value |-> [dtype |-> "float64", cells |-> x.cells,
                     hist |-> Append(x.hist, <<window_length, polyorder>>)]]

\* Variant: the values added as a new column.
SetColumnMut(df, j, values) ==
    [df EXCEPT !.columns = Append(@, df.columns[j]), !.series = Append(@, values)]
\* self.data[col] = values, for the col at position j
SetColumn(df, j, values) == [df EXCEPT !.series[j] = values]

\* Lines 263-268 from position j of columns (the Index the for statement
\* iterates) on: the frame, the messages printed and the exception that ended
\* the loop, if one did.  A label without .lower() raises AttributeError
\* outside the try.
RECURSIVE FilterColumns(_, _, _, _, _, _)
FilterColumns(df, columns, j, window, poly_order, out) ==
    IF j > Len(columns)
    THEN [data |-> df, stdout |-> out, exc |-> "none"]
    ELSE LET col == columns[j] IN
         IF col.kind # "str"
         THEN [data |-> df, stdout |-> out, exc |-> "AttributeError"]
         ELSE IF NotWavelength(col)
         THEN LET r == SavgolFilter(df.series[j], window, poly_order) IN
              IF r.ok
              THEN FilterColumns(SetColumn(df, j, r.value), columns, j + 1,
                                 window, poly_order, out)
              ELSE FilterColumns(df, columns, j + 1, window, poly_order,
                                 Append(out, MsgAbout("Error filtering column", col)))
         ELSE FilterColumns(df, columns, j + 1, window, poly_order, out)

(***************************************************************************)
(* QTableWidget                                                            *)
(***************************************************************************)
NoValue == [src |-> <<>>, hist |-> <<>>, at |-> 0]
NoItem == [fmt |-> "none", val |-> NoValue]

Cells(rows, cols) == (1..rows) \X (1..cols)

EmptyTable == [rowCount |-> 0, columnCount |-> 0, headers |-> <<>>,
               items |-> [c \in Cells(0, 0) |-> NoItem]]

Resize(t, rows, cols) ==
    [c \in Cells(rows, cols) |-> IF c \in DOMAIN t.items THEN t.items[c] ELSE NoItem]

\* clear(): items and header labels go, the counts stay
Clear(t) ==
    [t EXCEPT !.headers = <<>>,
              !.items = [c \in Cells(t.rowCount, t.columnCount) |-> NoItem]]

SetRowCount(t, n) ==
    [t EXCEPT !.rowCount = n, !.items = Resize(t, n, t.columnCount)]

SetColumnCount(t, n) ==
    [t EXCEPT !.columnCount = n, !.items = Resize(t, t.rowCount, n),
              !.headers = SubSeq(@, 1, IF Len(@) < n THEN Len(@) ELSE n)]

\* setHorizontalHeaderLabels takes str only.
SetHorizontalHeaderLabels(t, labels) ==
    [t EXCEPT !.headers =
        [j \in 1..(IF Len(labels) < t.columnCount THEN Len(labels) ELSE t.columnCount)
            |-> labels[j].v]]

SetItem(t, i, j, item) ==
    IF <<i, j>> \in DOMAIN t.items THEN [t EXCEPT !.items[<<i, j>>] = item] ELSE t

(***************************************************************************)
(* Values and their str()                                                  *)
(***************************************************************************)
\* The scalar at row i of a column: its dtype and its value (the cell read
\* from the file, or position i of the filtered array).
Scalar(x, i) ==
    [dtype |-> x.dtype,
     val |-> IF x.hist = <<>>
             THEN [src |-> <<x.cells[i]>>, hist |-> <<>>, at |-> 1]
             ELSE [src |-> x.cells, hist |-> x.hist, at |-> i]]

\* str(): digits for an integer, digits with a decimal point for a float,
\* the text itself for text.
Str(scalar) ==
    [fmt |-> CASE scalar.dtype = "int64" -> "int"
               [] scalar.dtype = "float64" -> "float"
               [] OTHER -> "text",
     val |-> scalar.val]

\* The dtype of a row taken across the columns (DataFrame.iloc[i]): the
\* columns' own when they agree, object when one is object, float64 for
\* integers and floats together.
RowDtype(df) ==
    LET dtypes == {df.series[j].dtype : j \in DOMAIN df.series}
    IN  IF Cardinality(dtypes) = 1 THEN CHOOSE d \in dtypes : TRUE
        ELSE IF "object" \in dtypes THEN "object"
        ELSE "float64"

\* self.data.iloc[i][col] for the col at position j
ILoc(df, i, j) ==
    LET s == Scalar(df.series[j], i)
    IN  IF RowDtype(df) = "object" THEN s ELSE [s EXCEPT !.dtype = RowDtype(df)]

(***************************************************************************)
(* The window object and its handlers.  A handler maps the object (a       *)
(* record of the variables) to the object it leaves behind.                *)
(***************************************************************************)
NoParams == [set |-> FALSE, window |-> 0, poly_order |-> 0]
NoPlot == [shown |-> FALSE, title |-> "", x |-> NoArg, y |-> NoArg, xlabel |-> ""]

\* __init__, create_sidebar, create_main_content
InitSelf ==
    [data |-> None, loaded_file_path |-> NoPath,
     preproc_button |-> FALSE, preproc_options |-> FALSE,
     filter_controls |-> FALSE,
     slider_window |-> WindowInit, slider_poly |-> PolyInit,
     table_widget |-> EmptyTable, plot_view |-> NoPlot,
     content_area |-> "table_widget", outfiles |-> {},
     stdout |-> <<>>, msgbox |-> NoPath, params |-> NoParams,
     uncaught |-> "none", last |-> "__init__"]

Self ==
    [data |-> data, loaded_file_path |-> loaded_file_path,
     preproc_button |-> preproc_button, preproc_options |-> preproc_options,
     filter_controls |-> filter_controls,
     slider_window |-> slider_window, slider_poly |-> slider_poly,
     table_widget |-> table_widget, plot_view |-> plot_view,
     content_area |-> content_area, outfiles |-> outfiles,
     stdout |-> stdout, msgbox |-> msgbox, params |-> params,
     uncaught |-> uncaught, last |-> last]

\* A handler starts with nothing printed, no dialog, no exception and no
\* locals.
Enter(self, handler) ==
    [self EXCEPT !.stdout = <<>>, !.msgbox = NoPath, !.uncaught = "none",
                 !.params = NoParams, !.last = handler]

Emit(self, msg) == [self EXCEPT !.stdout = Append(@, msg)]

\* Lines 214-216: the items set from cell k on, the cells counted row by
\* row from 0.
RECURSIVE FillItems(_, _, _)
FillItems(t, df, k) ==
    IF k >= df.nrows * Len(df.columns) THEN t
    ELSE LET i == (k \div Len(df.columns)) + 1
             j == (k % Len(df.columns)) + 1
         IN  FillItems(SetItem(t, i, j, Str(ILoc(df, i, j))), df, k + 1)

\* display_data: the object left behind and the exception raised, if any
display_data(self) ==
    IF ~self.data.isNone
    THEN LET df == self.data
             t1 == Clear(self.table_widget)
             t2 == SetRowCount(t1, df.nrows)
             t3 == SetColumnCount(t2, Len(df.columns))
         IN  IF \E j \in DOMAIN df.columns : df.columns[j].kind # "str"
             THEN [self |-> [self EXCEPT !.table_widget = t3], exc |-> "TypeError"]
             ELSE [self |-> [self EXCEPT
                               !.table_widget =
                                   FillItems(SetHorizontalHeaderLabels(t3, df.columns), df, 0),
                               !.content_area = "table_widget"],
                   exc |-> "none"]
    ELSE [self |-> Emit(self, Msg("No data loaded.")), exc |-> "none"]

\* toggle_preprocessing_options, after the click has flipped the button
toggle_preprocessing_options(self0) ==
    LET self == Enter(self0, "toggle_preprocessing_options")
        is_checked == self.preproc_button
        s1 == [self EXCEPT !.preproc_options = is_checked]
    IN  IF ~is_checked THEN [s1 EXCEPT !.filter_controls = FALSE] ELSE s1

\* Variant: loaded_file_path assigned before read_excel.
load_excel_file_Mut(self0, file_path) ==
    LET self == Enter(self0, "load_excel_file") IN
    IF ~file_path.isNone
    THEN LET r == ReadExcel(file_path)
             s0 == [self EXCEPT !.loaded_file_path = file_path] IN
         IF ~r.ok
         THEN Emit(s0, Msg("Error loading file"))
         ELSE LET s1 == Emit([s0 EXCEPT !.data = r.value],
                              Msg("Excel file loaded successfully."))
                  d == display_data(s1)
              IN  IF d.exc = "none" THEN d.self
                  ELSE Emit(d.self, Msg("Error loading file"))
    ELSE self
\* load_excel_file; file_path is NoPath when the dialog is cancelled
load_excel_file(self0, file_path) ==
    LET self == Enter(self0, "load_excel_file") IN
    IF ~file_path.isNone
    THEN LET r == ReadExcel(file_path) IN
         IF ~r.ok
         THEN Emit(self, Msg("Error loading file"))
         ELSE LET s1 == Emit([self EXCEPT !.data = r.value,
                                           !.loaded_file_path = file_path],
                              Msg("Excel file loaded successfully."))
                  d == display_data(s1)
              IN  IF d.exc = "none" THEN d.self
                  ELSE Emit(d.self, Msg("Error loading file"))
    ELSE self

\* plot_data
plot_data(self0) ==
    LET self == Enter(self0, "plot_data")
        columns == self.data.columns
    IN
    IF ~self.data.isNone
    THEN IF Len(columns) = 0
         THEN [self EXCEPT !.uncaught = "IndexError"]
         ELSE IF columns[1].kind # "str"
         THEN [self EXCEPT !.uncaught = "AttributeError"]
         ELSE IF Lower(columns[1].v) = wavelength /\ Len(columns) > 1
         THEN [self EXCEPT
                 !.plot_view = [shown |-> TRUE, title |-> "Spectral Data",
                                x |-> columns[1], y |-> columns[2],
                                xlabel |-> "Wavelength"],
                 !.content_area = "plot_view"]
         ELSE Emit(self, Msg("Ensure the first column is named 'wavelength' and at least one data column exists."))
    ELSE Emit(self, Msg("No data loaded."))

\* Variant: the controls shown without looking at self.data.
activate_filter_mode_Mut(self0) ==
    LET self == Enter(self0, "activate_filter_mode")
    IN  Emit([self EXCEPT !.filter_controls = TRUE], Msg("Filter mode activated."))
\* activate_filter_mode
activate_filter_mode(self0) ==
    LET self == Enter(self0, "activate_filter_mode") IN
    IF ~self.data.isNone
    THEN Emit([self EXCEPT !.filter_controls = TRUE], Msg("Filter mode activated."))
    ELSE Emit(self, Msg("Load an Excel file first."))

\* Variant: a failed write puts the DataFrame of the file back.
SaveFiltered_Mut(self, write_ok) ==
    IF ~self.loaded_file_path.isNone
    THEN LET output_path == OutputPath(self.loaded_file_path) IN
         IF write_ok
         THEN Emit([self EXCEPT
                       !.outfiles = {f \in @ : f.path # output_path}
                                    \cup {[path |-> output_path, frame |-> self.data]},
                       !.msgbox = output_path],
                    MsgAbout("Filtered data saved to", [kind |-> "path", v |-> <<output_path.base, output_path.ext>>]))
         ELSE Emit([self EXCEPT !.data = ReadExcel(self.loaded_file_path).value],
                    Msg("Error saving filtered file"))
    ELSE Emit(self, Msg("Original file path not found."))
\* Lines 270-281: to_excel either writes output_path or raises
SaveFiltered(self, write_ok) ==
    IF ~self.loaded_file_path.isNone
    THEN LET output_path == OutputPath(self.loaded_file_path) IN
         IF write_ok
         THEN Emit([self EXCEPT
                       !.outfiles = {f \in @ : f.path # output_path}
                                    \cup {[path |-> output_path, frame |-> self.data]},
                       !.msgbox = output_path],
                    MsgAbout("Filtered data saved to", [kind |-> "path", v |-> <<output_path.base, output_path.ext>>]))
         ELSE Emit(self, Msg("Error saving filtered file"))
    ELSE Emit(self, Msg("Original file path not found."))

\* finished_filtering
finished_filtering(self0, write_ok) ==
    LET self == Enter(self0, "finished_filtering") IN
    IF self.data.isNone
    THEN Emit(self, Msg("No data loaded."))
    ELSE LET poly_order == self.slider_poly
             window == NormalizeWindow(self.slider_window, poly_order)
             f == FilterColumns(self.data, self.data.columns, 1, window, poly_order, <<>>)
             s1 == [self EXCEPT !.data = f.data, !.stdout = f.stdout,
                                !.params = [set |-> TRUE, window |-> window,
                                            poly_order |-> poly_order]]
         IN  IF f.exc # "none"
             THEN [s1 EXCEPT !.uncaught = f.exc]
             ELSE LET d == display_data(SaveFiltered(s1, write_ok)) IN
                  IF d.exc # "none"
                  THEN [d.self EXCEPT !.uncaught = d.exc]
                  ELSE [d.self EXCEPT !.filter_controls = FALSE]

(***************************************************************************)
(* The application                                                         *)
(***************************************************************************)
\* Values the sliders are moved to (any integer of the range can be set).
WindowChoices == {WindowMin, WindowInit}
PolyChoices == {PolyInit, PolyInit + 1}

\* The variables take the fields of the object a handler leaves behind.  An
\* exception that leaves a slot is printed by PyQt5, which then either goes
\* on with the event loop or aborts the process, depending on its version and
\* on sys.excepthook.
Install(self) ==
    /\ data' = self.data
    /\ loaded_file_path' = self.loaded_file_path
    /\ preproc_button' = self.preproc_button
    /\ preproc_options' = self.preproc_options
    /\ filter_controls' = self.filter_controls
    /\ slider_window' = self.slider_window
    /\ slider_poly' = self.slider_poly
    /\ table_widget' = self.table_widget
    /\ plot_view' = self.plot_view
    /\ content_area' = self.content_area
    /\ outfiles' = self.outfiles
    /\ stdout' = self.stdout
    /\ msgbox' = self.msgbox
    /\ params' = self.params
    /\ uncaught' = self.uncaught
    /\ last' = self.last
    /\ IF self.uncaught = "none"
       THEN terminated' = FALSE
       ELSE terminated' \in BOOLEAN

\* The variables hold the object self, no exception is pending and no
\* finished_filtering has run.
Start(self) ==
    /\ data = self.data
    /\ loaded_file_path = self.loaded_file_path
    /\ preproc_button = self.preproc_button
    /\ preproc_options = self.preproc_options
    /\ filter_controls = self.filter_controls
    /\ slider_window = self.slider_window
    /\ slider_poly = self.slider_poly
    /\ table_widget = self.table_widget
    /\ plot_view = self.plot_view
    /\ content_area = self.content_area
    /\ outfiles = self.outfiles
    /\ stdout = self.stdout
    /\ msgbox = self.msgbox
    /\ params = self.params
    /\ uncaught = self.uncaught
    /\ last = self.last
    /\ terminated = FALSE
    /\ nfinal = 0

Init == Start(InitSelf)

\* A click on the checkable Preprocessing button.
TogglePreprocessingOptions ==
    /\ ~terminated
    /\ Install(toggle_preprocessing_options([Self EXCEPT !.preproc_button = ~@]))
    /\ UNCHANGED nfinal

\* Load Excel File, with the file the dialog returns.
LoadStep(file_path) ==
    /\ ~terminated
    /\ Install(load_excel_file(Self, file_path))
    /\ UNCHANGED nfinal

LoadExcelFile == \E file_path \in Files \cup {NoPath} : LoadStep(file_path)

PlotData ==
    /\ ~terminated
    /\ Install(plot_data(Self))
    /\ UNCHANGED nfinal

ActivateFilterMode ==
    /\ ~terminated
    /\ Install(activate_filter_mode(Self))
    /\ UNCHANGED nfinal

\* The sliders moved.
SetWindow ==
    /\ ~terminated
    /\ \E w \in WindowChoices : slider_window' = w
    /\ UNCHANGED <<data, loaded_file_path, preproc_button, preproc_options,
                   filter_controls, slider_poly, table_widget, plot_view,
                   content_area, outfiles, stdout, msgbox, params, uncaught,
                   terminated, last, nfinal>>

SetPoly ==
    /\ ~terminated
    /\ \E p \in PolyChoices : slider_poly' = p
    /\ UNCHANGED <<data, loaded_file_path, preproc_button, preproc_options,
                   filter_controls, slider_window, table_widget, plot_view,
                   content_area, outfiles, stdout, msgbox, params, uncaught,
                   terminated, last, nfinal>>

\* Finished filtering choices; to_excel succeeds or raises.
FinishedFiltering ==
    /\ ~terminated
    /\ data.isNone \/ nfinal < MaxFinalize
    /\ \E write_ok \in BOOLEAN : Install(finished_filtering(Self, write_ok))
    /\ nfinal' = IF data.isNone THEN nfinal ELSE nfinal + 1

Next ==
    \/ TogglePreprocessingOptions
    \/ LoadExcelFile
    \/ PlotData
    \/ ActivateFilterMode
    \/ SetWindow
    \/ SetPoly
    \/ FinishedFiltering

Spec == Init /\ [][Next]_vars

(***************************************************************************)
(* finished_filtering alone, from sample.xlsx loaded and the sliders at    *)
(* any values of their ranges                                              *)
(***************************************************************************)
InitNorm ==
    \E w \in WindowMin..WindowMax, p \in PolyMin..PolyMax :
        Start([load_excel_file(InitSelf, SamplePath) EXCEPT
                  !.slider_window = w, !.slider_poly = p])

SpecNorm == InitNorm /\ [][FinishedFiltering]_vars

(***************************************************************************)
(* Properties                                                              *)
(***************************************************************************)
Range(seq) == {seq[i] : i \in DOMAIN seq}

\* The label at position j names the wavelength column.
IsWavelength(df, j) ==
    df.columns[j].kind = "str" /\ Lower(df.columns[j].v) = wavelength

\* The DataFrame read by the last successful load.
Loaded == ReadExcel(loaded_file_path).value

\* C1: for every window_size in 3..21, odd or even, and every
\* polynomial_order in 1..5, the window finished_filtering passes to the
\* filter is odd and strictly greater than polynomial_order; window 4 with
\* order 2 gives 5.
C1_WindowOddAboveOrder ==
    params.set =>
        /\ params.poly_order = slider_poly
        /\ params.window % 2 = 1
        /\ params.window > params.poly_order
        /\ (slider_window = 4 /\ slider_poly = 2 => params.window = 5)

C1_Witness ==
    /\ last = "finished_filtering"
    /\ params.set
    /\ slider_window = 4 /\ slider_poly = 2 /\ params.window = 5

\* C2: after a successful load, whatever finalize, plot, activate and toggle
\* actions follow, every column whose name is "wavelength" in any case
\* holds the values that were loaded.
C2_WavelengthUnchanged ==
    ~data.isNone =>
        \A j \in DOMAIN data.columns :
            IsWavelength(data, j) =>
                /\ j \in DOMAIN Loaded.columns
                /\ Loaded.columns[j] = data.columns[j]
                /\ data.series[j] = Loaded.series[j]

C2_Witness ==
    /\ last = "finished_filtering"
    /\ nfinal = MaxFinalize
    /\ \E j \in DOMAIN data.columns :
          IsWavelength(data, j) /\ data.columns[j].v # wavelength
    /\ \E j \in DOMAIN data.columns : Len(data.series[j].hist) = MaxFinalize

\* A step of finished_filtering on a DataFrame.
Finalized == nfinal' = nfinal + 1

\* The shape of a DataFrame: labels in order, number of rows, length of
\* every column.
Shape(df) ==
    [columns |-> df.columns, nrows |-> df.nrows,
     lengths |-> [j \in DOMAIN df.series |-> Len(df.series[j].cells)]]

\* C3: every finalize on a loaded Dataset preserves the column count, the
\* column names and their order, and the row count, whether or not columns
\* fail to filter and whether or not the write succeeds.
C3_ShapePreserved == [][Finalized => Shape(data') = Shape(data)]_vars

C3_Witness ==
    /\ last = "finished_filtering"
    /\ \E m \in Range(stdout) : m.text = "Error filtering column"
    /\ Msg("Error saving filtered file") \in Range(stdout)
    /\ \E j \in DOMAIN data.series : data.series[j].hist # <<>>

\* A load that installs nothing: the dialog was cancelled, or read_excel
\* raised.
Cancelled(file_path) == file_path.isNone
ParseFails(file_path) == ~file_path.isNone /\ ~ReadExcel(file_path).ok

LoadKeepsState ==
    /\ data' = data
    /\ loaded_file_path' = loaded_file_path
    /\ UNCHANGED <<table_widget, content_area, plot_view, filter_controls>>
    /\ uncaught' = "none"

\* C4, as claimed: when the file cannot be parsed or the dialog is
\* cancelled, the Dataset and the Source File Reference keep their values,
\* nothing partial is installed, and a diagnostic is emitted.
C4_AbortWithDiagnostic ==
    [][\A f \in Files \cup {NoPath} :
          (last' = "load_excel_file" /\ (Cancelled(f) \/ ParseFails(f)) /\ LoadStep(f))
              => (LoadKeepsState /\ stdout' # <<>>)]_vars

\* C4, amended: when the file cannot be parsed or the dialog is cancelled,
\* the Dataset and the Source File Reference keep their values and nothing
\* partial is installed; a diagnostic is emitted when the file cannot be
\* parsed, and none when the dialog is cancelled.
C4_AbortDiagnosticOnParseFailure ==
    [][\A f \in Files \cup {NoPath} :
          (last' = "load_excel_file" /\ (Cancelled(f) \/ ParseFails(f)) /\ LoadStep(f))
              => /\ LoadKeepsState
                 /\ ParseFails(f) => stdout' = <<Msg("Error loading file")>>
                 /\ Cancelled(f) => stdout' = <<>>]_vars

\* a failed load with a Dataset already there
C4_Witness ==
    /\ last = "load_excel_file"
    /\ stdout = <<Msg("Error loading file")>>
    /\ ~data.isNone
    /\ loaded_file_path # CorruptPath

\* The Dataset the filter contract describes: every column but wavelength
\* replaced by its smoothed values, a column that cannot be smoothed kept.
Expected(df, window, poly_order) ==
    [df EXCEPT !.series =
        [j \in DOMAIN df.series |->
            IF ~IsWavelength(df, j) /\ SavgolFilter(df.series[j], window, poly_order).ok
            THEN SavgolFilter(df.series[j], window, poly_order).value
            ELSE df.series[j]]]

\* The write step was reached: the file was written, or the write failed.
WriteAttempted(out, box) ==
    ~box.isNone \/ Msg("Error saving filtered file") \in Range(out)

\* The grid has the dimensions and header labels of df and an item in every
\* cell.
Redisplayed(t, df) ==
    /\ t.rowCount = df.nrows
    /\ t.columnCount = Len(df.columns)
    /\ t.headers = [j \in DOMAIN df.columns |-> df.columns[j].v]
    /\ DOMAIN t.items = Cells(df.nrows, Len(df.columns))
    /\ \A c \in DOMAIN t.items : t.items[c] # NoItem

\* C5: during finalize, if smoothing one non-wavelength column fails, that
\* column keeps its values, a diagnostic naming it is emitted, every other
\* non-wavelength column, before and after it, is still smoothed, and the
\* operation continues to the write and redisplay steps.
C5_BadColumnDoesNotAbort ==
    [][(/\ Finalized
        /\ \E j \in DOMAIN data.columns :
              /\ data.columns[j].kind = "str"
              /\ ~IsWavelength(data, j)
              /\ ~SavgolFilter(data.series[j], params'.window, params'.poly_order).ok)
       => /\ data' = Expected(data, params'.window, params'.poly_order)
          /\ \A j \in DOMAIN data.columns :
                (/\ ~IsWavelength(data, j)
                 /\ ~SavgolFilter(data.series[j], params'.window, params'.poly_order).ok)
                => MsgAbout("Error filtering column", data.columns[j]) \in Range(stdout')
          /\ uncaught' = "none"
          /\ WriteAttempted(stdout', msgbox')
          /\ Redisplayed(table_widget', data')
          /\ content_area' = "table_widget"]_vars

\* C6: if writing the output file fails during finalize, the failure is
\* reported, the in-memory Dataset is the filtered one (not rolled back),
\* the table is still redisplayed and the filter controls are hidden.
C6_WriteFailureKeepsFiltered ==
    [][(Finalized /\ Msg("Error saving filtered file") \in Range(stdout'))
       => /\ data' = Expected(data, params'.window, params'.poly_order)
          /\ outfiles' = outfiles
          /\ msgbox' = NoPath
          /\ Redisplayed(table_widget', data')
          /\ content_area' = "table_widget"
          /\ ~filter_controls'
          /\ uncaught' = "none"]_vars

\* a failed write after a column was smoothed, with the chart in view before
C6_Witness ==
    /\ last = "finished_filtering"
    /\ Msg("Error saving filtered file") \in Range(stdout)
    /\ \E j \in DOMAIN data.series : data.series[j].hist # <<>>
    /\ data # Loaded
    /\ plot_view.shown
    /\ content_area = "table_widget"
    /\ ~filter_controls

\* C7: with no Dataset, plot, activate-filter-mode and finalize are no-ops:
\* each emits a diagnostic, Dataset and Source File Reference stay absent,
\* the filter controls stay hidden, the view is unchanged and no output file
\* is written.
C7_NoDataNoOps ==
    [][(data.isNone /\ (PlotData \/ ActivateFilterMode \/ FinishedFiltering))
       => /\ stdout' # <<>>
          /\ data'.isNone
          /\ loaded_file_path.isNone /\ loaded_file_path'.isNone
          /\ ~filter_controls /\ ~filter_controls'
          /\ UNCHANGED <<content_area, table_widget, plot_view>>
          /\ outfiles = {} /\ outfiles' = {}
          /\ msgbox' = NoPath
          /\ uncaught' = "none"]_vars

C7_Witness ==
    /\ data.isNone
    /\ last = "activate_filter_mode"
    /\ stdout = <<Msg("Load an Excel file first.")>>
    /\ preproc_options

\* C8: no user action lets a failure escape: every failure, also one caused
\* by column names that are not text or by a first column that is not
\* "wavelength", is caught in the action and turned into a diagnostic, and
\* the application never terminates.
C8_NoFailureEscapes == uncaught = "none" /\ ~terminated

\* C9: the filter controls become visible only through activate-filter-mode
\* with a Dataset present, every finalize on a loaded Dataset ends with them
\* hidden, and collapsing the options panel hides them and leaves the slider
\* values and the Dataset unchanged.
C9_ControlsFollowMode ==
    [][/\ (~filter_controls /\ filter_controls')
            => (last' = "activate_filter_mode" /\ ~data.isNone)
       /\ Finalized => ~filter_controls'
       /\ (TogglePreprocessingOptions /\ ~preproc_button')
            => /\ ~filter_controls' /\ ~preproc_options'
               /\ UNCHANGED <<slider_window, slider_poly, data>>]_vars

\* The grid that shows df exactly: one row per sample, one column per
\* field, the labels as headers, each cell the str() of the value there.
ExactGrid(df) ==
    [rowCount |-> df.nrows, columnCount |-> Len(df.columns),
     headers |-> [j \in DOMAIN df.columns |-> df.columns[j].v],
     items |-> [c \in Cells(df.nrows, Len(df.columns)) |->
                   Str(Scalar(df.series[c[2]], c[1]))]]

\* C10: after every successful load and after every finalize the table grid
\* is the current view and holds exactly the current Dataset, with nothing
\* left of a Dataset shown before.
C10_GridShowsDataset ==
    (\/ /\ last = "load_excel_file"
        /\ Msg("Excel file loaded successfully.") \in Range(stdout)
     \/ /\ last = "finished_filtering"
        /\ ~data.isNone)
    => /\ content_area = "table_widget"
       /\ table_widget = ExactGrid(data)

====
